---- MODULE Spec2Model ----
(***************************************************************************)
(* Model of deeppavlov/models/kbqa/entity_linking.py (class EntityLinker). *)
(*                                                                         *)
(* Python strings that the code inspects character by character (the       *)
(* mention, the NameIndex keys, candidate surface fields, identifiers)     *)
(* are sequences of one-character strings.  Question tokens are only       *)
(* lowercased, joined and compared, so they are atomic strings with the    *)
(* lowercasing given as a table.  The four Russian templates of            *)
(* filter_triplets are written in Latin transliteration.                   *)
(* Confidences are kept in hundredths (1.0 is 100, 0.0 is 0, s * 0.01 is   *)
(* s).  Tuple and list positions are 1-based here and 0-based in Python.   *)
(***************************************************************************)
EXTENDS Integers, Sequences, FiniteSets, TLC

VARIABLES
    name_to_q,            \* self.name_to_q: NameIndex, a function key -> candidate sequence
    wikidata,             \* self.wikidata: FactStore, a function identifier -> fact sequence
    lemmatize,            \* self.lemmatize
    rule_filter_entities, \* self.rule_filter_entities
    hashOrder,            \* iteration order of a Python set in this process
    op,                   \* the method invoked last ("init" before any call)
    args,                 \* the arguments of the last invocation
    ret,                  \* what the last invocation produced
    ncalls                \* parity of the number of __call__ invocations so far

vars == <<name_to_q, wikidata, lemmatize, rule_filter_entities, hashOrder,
          op, args, ret, ncalls>>

-----------------------------------------------------------------------------
(* Bounds of the model. *)

MaxKeys == 2
MaxIds == 2
MaxLists == 2
MaxTokens == 2

-----------------------------------------------------------------------------
(* Strings. *)

sEmpty == <<>>
s_a == <<"a">>
s_A == <<"A">>
s_ab == <<"a", "b">>
s_a_b == <<"a", " ", "b">>
s_a_bs == <<"a", " ", "b", "s">>
s_as_bs == <<"a", "s", " ", "b", "s">>

idQ1 == <<"Q", "1">>
idQ2 == <<"Q", "2">>
idP3 == <<"P", "3">>
idNone == <<"N", "o", "n", "e">>

\* str.lower() on one character
LowerChar(c) ==
    CASE c = "A" -> "a"
      [] c = "B" -> "b"
      [] c = "S" -> "s"
      [] OTHER -> c

\* str.lower() on a character string
Lower(s) == [i \in 1..Len(s) |-> LowerChar(s[i])]

\* str.lower() on a question token
LowerTok(t) ==
    CASE t = "Chto" -> "chto"
      [] t = "Takoe" -> "takoe"
      [] t = "Kto" -> "kto"
      [] OTHER -> t

\* s.split(' '): cut at every space, empty pieces kept
RECURSIVE Split(_)
Split(s) ==
    IF \A i \in 1..Len(s) : s[i] # " "
    THEN <<s>>
    ELSE LET p == CHOOSE i \in 1..Len(s) :
                      s[i] = " " /\ \A j \in 1..(i - 1) : s[j] # " "
         IN <<SubSeq(s, 1, p - 1)>> \o Split(SubSeq(s, p + 1, Len(s)))

\* ' '.join(toks)
RECURSIVE Join(_)
Join(toks) ==
    IF Len(toks) = 0 THEN <<>>
    ELSE IF Len(toks) = 1 THEN toks[1]
    ELSE toks[1] \o <<" ">> \o Join(Tail(toks))

\* title.find(sub) > -1
Contains(title, sub) ==
    \E i \in 0..(Len(title) - Len(sub)) :
        \A j \in 1..Len(sub) : title[i + j] = sub[j]

\* variant: the prefix test always passes
StartsWithQ_any(s) == TRUE

\* s.startswith('Q')
StartsWithQ(s) == Len(s) >= 1 /\ s[1] = "Q"

\* self.morph.parse(tok)[0].normal_form: the dictionary form, in lower case
NormalForm(tok) ==
    CASE Lower(tok) = <<"a", "s">> -> <<"a">>
      [] Lower(tok) = <<"b", "s">> -> <<"b">>
      [] OTHER -> Lower(tok)

\* length of a longest common subsequence
RECURSIVE Lcs(_, _)
Lcs(a, b) ==
    IF Len(a) = 0 \/ Len(b) = 0 THEN 0
    ELSE IF Head(a) = Head(b) THEN 1 + Lcs(Tail(a), Tail(b))
    ELSE LET x == Lcs(Tail(a), b)
             y == Lcs(a, Tail(b))
         IN IF x >= y THEN x ELSE y

\* fuzz.ratio(a, b): 100 * 2M / (len(a) + len(b)) rounded, 0 for an empty string
Ratio(a, b) ==
    IF Len(a) = 0 \/ Len(b) = 0 THEN 0
    ELSE LET T == Len(a) + Len(b)
         IN (400 * Lcs(a, b) + T) \div (2 * T)

-----------------------------------------------------------------------------
(* Python values whose type matters to ==. *)

PyStr(c) == [type |-> "str", val |-> c]
PyInt(n) == [type |-> "int", val |-> n]

\* x == y: values of different types are unequal
PyEq(x, y) == x.type = y.type /\ x.val = y.val

\* itertools.product('01', repeat=k): tuples of characters, first position slowest
RECURSIVE Product01(_)
Product01(k) ==
    IF k = 0 THEN << <<>> >>
    ELSE LET rest == Product01(k - 1)
             n == Len(rest)
         IN [i \in 1..(2 * n) |->
                IF i <= n THEN <<PyStr("0")>> \o rest[i]
                ELSE <<PyStr("1")>> \o rest[i - n]]

\* concatenation of a sequence of sequences
RECURSIVE Flatten(_)
Flatten(ss) == IF Len(ss) = 0 THEN <<>> ELSE Head(ss) \o Flatten(Tail(ss))

\* the elements of a sequence
Range(s) == {s[i] : i \in 1..Len(s)}

\* sorted(xs, key=lambda x: x[k - 1], reverse=True): descending, equal keys keep their order
RECURSIVE SortedDesc(_, _)
SortedDesc(xs, k) ==
    IF Len(xs) = 0 THEN <<>>
    ELSE LET done == SortedDesc(SubSeq(xs, 1, Len(xs) - 1), k)
             x == xs[Len(xs)]
             n == Cardinality({i \in 1..Len(done) : done[i][k] >= x[k]})
         IN SubSeq(done, 1, n) \o <<x>> \o SubSeq(done, n + 1, Len(done))

-----------------------------------------------------------------------------
(* The universes the inputs are drawn from. *)

\* candidate records (surface field, identifier, rank)
cand1 == <<s_a_b, idQ1, 1>>
cand2 == <<s_a_b, idQ2, 1>>
cand3 == <<s_ab, idP3, 2>>
Cands == {cand1, cand2, cand3}
CandSeqs == {<<>>, <<cand1>>, <<cand2>>, <<cand3>>, <<cand1, cand3>>}

\* NameIndex keys, in the order the dict was filled
KeyOrder == <<s_a, s_ab, s_a_b, s_a_bs>>
Keys == Range(KeyOrder)
Indexes ==
    UNION {[D -> CandSeqs] : D \in {K \in SUBSET Keys : Cardinality(K) <= MaxKeys}}

Mentions == {sEmpty, s_a, s_A, s_as_bs}
Questions == {<<>>, <<"Chto">>, <<"Chto", "takoe">>, <<"Kto", "takoe">>}

\* facts (propertyId, valueId)
factHuman == <<"P31", "Q5">>
factCity == <<"P31", "Q515">>
factBorn == <<"P19", "Q5">>
StoreIds == {idQ1, idQ2, idP3, idNone}
FullStore ==
    [i \in StoreIds |->
        CASE i = idQ1 -> <<factCity, factHuman>>
          [] i = idQ2 -> <<factCity>>
          [] i = idP3 -> <<factBorn>>
          [] OTHER -> <<factHuman>>]
Stores == {<<>>, FullStore}

\* the candidates an index holds, and the orders a set of them can iterate in
CandsOf(idx) == UNION {Range(idx[k]) : k \in DOMAIN idx}
Orders(S) ==
    {o \in [1..Cardinality(S) -> S] : \A i, j \in DOMAIN o : o[i] = o[j] => i = j}

-----------------------------------------------------------------------------
(* EntityLinker's methods. *)

\* self.name_to_q.get(key, [])
Get(key) == IF key \in DOMAIN name_to_q THEN name_to_q[key] ELSE <<>>

\* for title in self.name_to_q
Titles == SelectSeq(KeyOrder, LAMBDA k : k \in DOMAIN name_to_q)

\* a sequence back to front
Reverse(q) == [i \in 1..Len(q) |-> q[Len(q) + 1 - i]]

\* variant: the iteration order of a set changes from one call to the next
SetOrder_per_call == IF ncalls = 0 THEN hashOrder ELSE Reverse(hashOrder)

\* the order in which a set built in this process is iterated
SetOrder == hashOrder

\* list(set(candidates)) for candidate records
SetToList(S) == SelectSeq(SetOrder, LAMBDA c : c \in S)

\* list(set(candidates)) for (candidate, score) pairs; a candidate has one score per call
PairSetToList(P) ==
    LET cs == SelectSeq(SetOrder, LAMBDA c : \E p \in P : p[1] = c)
    IN [i \in 1..Len(cs) |-> CHOOSE p \in P : p[1] = cs[i]]

\* the token count up to which lemma variants are tried
LemmaTokenLimit == 6

\* the string one mask builds: mask[i] == 0 compares a character with an integer
MaskedString(entity_split, entity_lemm_tokens, mask) ==
    Join([i \in 1..Len(entity_split) |->
             IF PyEq(mask[i], PyInt(0)) THEN entity_split[i]
             ELSE entity_lemm_tokens[i]])

\* lines 79-96: the lookups of the lemma variants of the mention
LemmaHits(entity) ==
    LET entity_split == Split(entity)
        entity_lemm_tokens == [i \in 1..Len(entity_split) |-> NormalForm(entity_split[i])]
        masks == Product01(Len(entity_split))
        hits == [m \in 1..Len(masks) |->
                    LET entity_lemm == MaskedString(entity_split, entity_lemm_tokens, masks[m])
                    IN IF entity_lemm # entity THEN Get(entity_lemm) ELSE <<>>]
    IN IF Len(entity_split) < LemmaTokenLimit /\ lemmatize THEN Flatten(hits) ELSE <<>>

\* variant: the verbatim lookup of line 78 is left out
find_candidate_entities_lemma_only(entity) == LemmaHits(entity)

find_candidate_entities(entity) == Get(entity) \o LemmaHits(entity)

\* the keys whose candidates fuzzy_entity_search accepts
FuzzyTitle(title, entity) ==
    /\ 2 * Len(title) > Len(entity)
    /\ 2 * Len(title) < 3 * Len(entity)
    /\ Ratio(title, entity) > 50

fuzzy_entity_search(entity) ==
    Flatten([t \in 1..Len(Titles) |->
                IF FuzzyTitle(Titles[t], entity)
                THEN LET cs == Get(Titles[t])
                     IN [c \in 1..Len(cs) |-> <<cs[c], Ratio(entity, cs[c][1])>>]
                ELSE <<>>])

substring_entity_search(entity) ==
    LET entity_lower == Lower(entity)
    IN Flatten([t \in 1..Len(Titles) |->
                   IF Contains(Titles[t], entity_lower) THEN Get(Titles[t]) ELSE <<>>])

\* variant: nothing is appended for an identifier without facts
extract_triplets_skip_missing(entity_ids) ==
    LET known == SelectSeq(entity_ids, LAMBDA i : i \in DOMAIN wikidata /\ StartsWithQ(i))
    IN [i \in 1..Len(known) |-> wikidata[known[i]]]

extract_triplets_from_wiki(entity_ids) ==
    [i \in 1..Len(entity_ids) |->
        IF entity_ids[i] \in DOMAIN wikidata /\ StartsWithQ(entity_ids[i])
        THEN wikidata[entity_ids[i]]
        ELSE <<>>]

\* 'chto takoe', 'chto est'', 'chto oznachaet', 'chto znachit' in the source's Cyrillic
what_is_templates == {"chto takoe", "chto est'", "chto oznachaet", "chto znachit"}

\* variant: the value of the instance-of fact is not compared
entity_is_human_any_instance(triplets_for_entity) ==
    \E t \in 1..Len(triplets_for_entity) : triplets_for_entity[t][1] = "P31"

entity_is_human(triplets_for_entity) ==
    \E t \in 1..Len(triplets_for_entity) :
        triplets_for_entity[t][1] = "P31" /\ triplets_for_entity[t][2] = "Q5"

\* filter_triplets for a question of at least two tokens
filter_triplets(entity_triplets, question_tokens) ==
    LET question_begin == LowerTok(question_tokens[1]) \o " " \o LowerTok(question_tokens[2])
    IN SelectSeq(entity_triplets,
                 LAMBDA l : ~(question_begin \in what_is_templates /\ entity_is_human(l)))

\* filter_triplets: question_tokens[0] and [1] raise IndexError on a shorter question
filter_triplets_outcome(entity_triplets, question_tokens) ==
    IF Len(question_tokens) < 2
    THEN [raised |-> "IndexError", value |-> <<>>]
    ELSE [raised |-> "none", value |-> filter_triplets(entity_triplets, question_tokens)]

\* [c[1] for c in srtd_cand_ent]
IdsOf(cs) == [i \in 1..Len(cs) |-> cs[i][2]]

\* lines 36-68 of __call__: the identifiers, the confidences and the tiers that ran
Resolve(entity) ==
    IF entity = <<>>
    THEN [tier |-> "empty", ran_substring |-> FALSE, ran_fuzzy |-> FALSE,
          found |-> <<>>, ranked |-> <<>>, wiki_entities |-> <<idNone>>, confidences |-> <<>>]
    ELSE
    LET candidate_entities == find_candidate_entities(entity)
        srtd1 == SortedDesc(candidate_entities, 3)
        srtd2 == SortedDesc(SetToList(Range(substring_entity_search(entity))), 3)
        srtd3 == SortedDesc(PairSetToList(Range(fuzzy_entity_search(entity))), 2)
    IN IF Len(srtd1) > 0
       THEN [tier |-> "exact", ran_substring |-> FALSE, ran_fuzzy |-> FALSE,
             found |-> candidate_entities, ranked |-> srtd1,
             wiki_entities |-> IdsOf(srtd1),
             confidences |-> [i \in 1..Len(srtd1) |-> 100]]
       ELSE IF Len(srtd2) > 0
       THEN [tier |-> "substring", ran_substring |-> TRUE, ran_fuzzy |-> FALSE,
             found |-> candidate_entities, ranked |-> srtd2,
             wiki_entities |-> IdsOf(srtd2),
             confidences |-> <<>>]
       ELSE IF Len(srtd3) > 0
       THEN [tier |-> "fuzzy", ran_substring |-> TRUE, ran_fuzzy |-> TRUE,
             found |-> candidate_entities, ranked |-> srtd3,
             wiki_entities |-> [i \in 1..Len(srtd3) |-> srtd3[i][1][2]],
             confidences |-> [i \in 1..Len(srtd3) |-> srtd3[i][2]]]
       ELSE [tier |-> "none", ran_substring |-> TRUE, ran_fuzzy |-> TRUE,
             found |-> candidate_entities, ranked |-> <<>>,
             wiki_entities |-> <<idNone>>,
             confidences |-> <<0>>]

\* lines 70-74 of __call__: filtered_entity_triplets is bound only when the filter runs
Finish(entity_triplets, question_tokens) ==
    IF rule_filter_entities
    THEN filter_triplets_outcome(entity_triplets, question_tokens)
    ELSE [raised |-> "UnboundLocalError", value |-> <<>>]

\* EntityLinker.__call__
call(entity, question_tokens) ==
    LET r == Resolve(entity)
        entity_triplets == extract_triplets_from_wiki(r.wiki_entities)
        f == Finish(entity_triplets, question_tokens)
    IN [tier |-> r.tier, ran_substring |-> r.ran_substring, ran_fuzzy |-> r.ran_fuzzy,
        found |-> r.found, ranked |-> r.ranked, wiki_entities |-> r.wiki_entities,
        entity_triplets |-> entity_triplets,
        raised |-> f.raised,
        fact_lists |-> f.value,
        confidences |-> IF f.raised = "none" THEN r.confidences ELSE <<>>,
        pre_confidences |-> r.confidences]

-----------------------------------------------------------------------------
(* The linker in use: constructed once, then called any number of times. *)

\* EntityLinker.__init__ with any index, store and flags
Init ==
    /\ name_to_q \in Indexes
    /\ wikidata \in Stores
    /\ lemmatize \in BOOLEAN
    /\ rule_filter_entities \in BOOLEAN
    /\ hashOrder \in Orders(CandsOf(name_to_q))
    /\ op = "init"
    /\ args = <<>>
    /\ ret = <<>>
    /\ ncalls = 0

Config == <<name_to_q, wikidata, lemmatize, rule_filter_entities, hashOrder>>

Call(entity, question_tokens) ==
    /\ op' = "call"
    /\ args' = <<entity, question_tokens>>
    /\ ret' = call(entity, question_tokens)
    /\ ncalls' = 1 - ncalls
    /\ UNCHANGED Config

Next == \E entity \in Mentions, question_tokens \in Questions : Call(entity, question_tokens)

Spec == Init /\ [][Next]_vars

-----------------------------------------------------------------------------
(* The methods called on their own. *)

Tokens == {"Chto", "chto", "Takoe", "takoe", "Kto", "est'"}
FactLists == {<<>>, <<factHuman>>, <<factCity>>, <<factBorn>>, <<factCity, factHuman>>}

\* the sequences over S of length at most n
SeqsUpTo(S, n) == UNION {[1..k -> S] : k \in 0..n}

\* filter_triplets is static: its two arguments are all it reads
InitFilter ==
    /\ name_to_q = <<>>
    /\ wikidata = <<>>
    /\ lemmatize = TRUE
    /\ rule_filter_entities = TRUE
    /\ hashOrder = <<>>
    /\ op = "init"
    /\ args \in SeqsUpTo(FactLists, MaxLists) \X SeqsUpTo(Tokens, MaxTokens)
    /\ ret = <<>>
    /\ ncalls = 0

Filter ==
    /\ op = "init"
    /\ op' = "filter"
    /\ ret' = filter_triplets_outcome(args[1], args[2])
    /\ UNCHANGED <<Config, args, ncalls>>

NextFilter == Filter

SpecFilter == InitFilter /\ [][NextFilter]_vars

ExtractStores == UNION {[D -> FactLists \ {<<>>}] : D \in SUBSET StoreIds}

\* extract_triplets_from_wiki reads the store and its argument
InitExtract ==
    /\ name_to_q = <<>>
    /\ wikidata \in ExtractStores
    /\ lemmatize = TRUE
    /\ rule_filter_entities = TRUE
    /\ hashOrder = <<>>
    /\ op = "init"
    /\ args \in {<<ids>> : ids \in SeqsUpTo(StoreIds, MaxIds)}
    /\ ret = <<>>
    /\ ncalls = 0

Extract ==
    /\ op = "init"
    /\ op' = "extract"
    /\ ret' = extract_triplets_from_wiki(args[1])
    /\ UNCHANGED <<Config, args, ncalls>>

NextExtract == Extract

SpecExtract == InitExtract /\ [][NextExtract]_vars

-----------------------------------------------------------------------------
(* Properties of __call__, checked under Spec. *)

\* the strings of all masks: per token, the token itself or its lemma
MaskVariants(e) ==
    LET sp == Split(e)
    IN {Join([i \in 1..Len(sp) |-> IF b[i] THEN NormalForm(sp[i]) ELSE sp[i]]) :
           b \in [1..Len(sp) -> BOOLEAN]}

\* the sort key of an entry of the ranked list: the rank, or the score of a fuzzy pair
SortKey(tier, x) == IF tier = "fuzzy" THEN x[2] ELSE x[3]

\* C1: for a non-empty mention, whichever tier answers, the fact lists of the Fact
\* Retriever (before the filter) and the confidences have the same length.
C1_Aligned ==
    (op = "call" /\ args[1] # <<>> /\ ret.raised = "none")
        => Len(ret.entity_triplets) = Len(ret.pre_confidences)

\* C2: when Tier 1 yields no candidate and a key with candidates contains the lowercased
\* mention, the answer is Tier 2's, the fuzzy search does not run, and every returned
\* candidate has confidence 1.0.
C2_Tier2Confident ==
    (/\ op = "call"
     /\ args[1] # <<>>
     /\ ret.raised = "none"
     /\ ret.found = <<>>
     /\ \E k \in DOMAIN name_to_q : Contains(k, Lower(args[1])) /\ name_to_q[k] # <<>>)
        => /\ ret.tier = "substring"
           /\ ~ret.ran_fuzzy
           /\ ret.pre_confidences = [i \in 1..Len(ret.wiki_entities) |-> 100]

\* C3: with the filter disabled the call returns normally, with the unfiltered fact
\* lists of the Fact Retriever and the confidences.
C3_FilterOffReturns ==
    (op = "call" /\ ~rule_filter_entities)
        => /\ ret.raised = "none"
           /\ ret.fact_lists = ret.entity_triplets
           /\ ret.confidences = ret.pre_confidences

\* C4: with lemmatization on and fewer than 6 tokens, Tier 1 holds the candidates of
\* every mask string that differs from the mention, the partially lemmatized included.
C4_AllVariantsLookedUp ==
    (/\ op = "call"
     /\ args[1] # <<>>
     /\ lemmatize
     /\ Len(Split(args[1])) < LemmaTokenLimit)
        => \A v \in MaskVariants(args[1]) \ {args[1]} :
               Range(Get(v)) \subseteq Range(ret.found)

\* the result C5 describes for the empty mention
EmptyMentionResult ==
    /\ ret.raised = "none"
    /\ ret.fact_lists = << <<>> >>
    /\ ret.confidences = <<>>
    /\ ret.tier = "empty"
    /\ ~ret.ran_substring
    /\ ~ret.ran_fuzzy

\* C5 as stated: for the empty mention and ANY question-token sequence, a call with the
\* filter enabled returns one empty fact list and no confidences, no tier having run.
C5_EmptyMentionAnyQuestion ==
    (op = "call" /\ args[1] = <<>> /\ rule_filter_entities) => EmptyMentionResult

\* C5 (amended): for the empty mention and a question of at least two tokens, a call with
\* the filter enabled returns one empty fact list (also when the store has a key "None")
\* and no confidences, no tier having run.
C5_EmptyMentionTwoTokens ==
    (op = "call" /\ args[1] = <<>> /\ rule_filter_entities /\ Len(args[2]) >= 2)
        => EmptyMentionResult

C5_Witness ==
    /\ op = "call"
    /\ args[1] = <<>>
    /\ rule_filter_entities
    /\ args[2] = <<"Chto", "takoe">>
    /\ idNone \in DOMAIN wikidata
    /\ entity_is_human(wikidata[idNone])
    /\ ret.fact_lists = << <<>> >>

\* what C6 says of a call: Tiers 2 and 3 not invoked, identifiers from Tier 1 only
OnlyTier1 ==
    /\ ~ret.ran_substring
    /\ ~ret.ran_fuzzy
    /\ Len(ret.wiki_entities) > 0
    /\ Range(ret.wiki_entities) \subseteq {c[2] : c \in Range(ret.found)}

\* C6 as stated: if the non-empty mention is a key of NameIndex (its candidate sequence
\* may be empty), Tiers 2 and 3 are never invoked and every identifier is Tier 1's.
C6_KeyedMentionOnlyTier1 ==
    (op = "call" /\ args[1] # <<>> /\ args[1] \in DOMAIN name_to_q) => OnlyTier1

\* C6 (amended): if the non-empty mention is a key of NameIndex with a non-empty
\* candidate sequence, Tiers 2 and 3 are never invoked and every identifier is Tier 1's.
C6_HitMentionOnlyTier1 ==
    (/\ op = "call"
     /\ args[1] # <<>>
     /\ args[1] \in DOMAIN name_to_q
     /\ name_to_q[args[1]] # <<>>) => OnlyTier1

C6_Witness ==
    /\ op = "call"
    /\ args[1] \in DOMAIN name_to_q
    /\ name_to_q[args[1]] # <<>>
    /\ ret.tier = "exact"
    /\ \E k \in DOMAIN name_to_q \ {args[1]} :
           /\ Contains(k, Lower(args[1]))
           /\ \E c \in Range(name_to_q[k]) :
                  c \notin Range(name_to_q[args[1]]) /\ c[2] \notin Range(ret.wiki_entities)

\* C7: the ranked candidate list of the tier that answered holds no candidate twice.
C7_RankedDeduplicated ==
    (op = "call" /\ args[1] # <<>> /\ ret.raised = "none")
        => \A i, j \in 1..Len(ret.ranked) : ret.ranked[i] = ret.ranked[j] => i = j

-----------------------------------------------------------------------------
(* Properties of filter_triplets (SpecFilter) and extract_triplets_from_wiki *)
(* (SpecExtract).                                                            *)

TemplatePairs ==
    {<<"chto", "takoe">>, <<"chto", "est'">>, <<"chto", "oznachaet">>, <<"chto", "znachit">>}

\* C8: filter_triplets returns the input with exactly the lists holding ("P31","Q5")
\* removed, order kept, when the lowercased first two tokens form a template, and
\* the input itself otherwise.
C8_FilterSubsequence ==
    (op = "filter" /\ Len(args[2]) >= 2)
        => /\ ret.raised = "none"
           /\ ret.value =
                  IF <<LowerTok(args[2][1]), LowerTok(args[2][2])>> \in TemplatePairs
                  THEN SelectSeq(args[1], LAMBDA l : factHuman \notin Range(l))
                  ELSE args[1]

C8_Witness ==
    /\ op = "filter"
    /\ Len(args[2]) >= 2
    /\ args[2][1] = "Chto"
    /\ args[2][2] = "takoe"
    /\ \E i, j \in 1..Len(args[1]) :
           /\ factHuman \in Range(args[1][i])
           /\ factHuman \notin Range(args[1][j])
           /\ factCity \in Range(args[1][j])
    /\ Len(ret.value) = Len(args[1]) - 1

\* C9: extract_triplets_from_wiki returns, position by position, the facts of an
\* identifier that is a store key and starts with "Q", and the empty list otherwise.
C9_ExtractAligned ==
    op = "extract"
        => /\ Len(ret) = Len(args[1])
           /\ \A i \in 1..Len(args[1]) :
                  ret[i] = IF args[1][i] \in DOMAIN wikidata /\ Head(args[1][i]) = "Q"
                           THEN wikidata[args[1][i]]
                           ELSE <<>>

C9_Witness ==
    /\ op = "extract"
    /\ idNone \in DOMAIN wikidata
    /\ idQ2 \notin DOMAIN wikidata
    /\ \E i, j \in 1..Len(args[1]) :
           /\ args[1][i] \in {idNone, idQ2}
           /\ ret[i] = <<>>
           /\ ret[j] # <<>>

====
